---- MODULE Spec2Model ----
(***************************************************************************)
(* Model of src/storage.ts: the key codec (keyFromUrl, unpackValue, the    *)
(* key split of readAll) and the store reader (LocalStorageExtractor.read  *)
(* and .readAll over a levelup handle opened per call).                    *)
(*                                                                         *)
(* Strings are sequences of UTF-16 code units, Buffers are sequences of    *)
(* bytes; Buffer.from and Buffer.toString are modelled as the UTF-8        *)
(* encoder and decoder they are.  URLs are given in the parsed form that   *)
(* urllib.parse returns (protocol, host); a URL without a host has the     *)
(* empty host, a URL without a scheme has the empty protocol.              *)
(***************************************************************************)
EXTENDS Integers, Sequences, FiniteSets, TLC

(***************************************************************************)
(* Bounds                                                                  *)
(***************************************************************************)
MaxKeyLen == 3
MaxRawLen == 3
MaxCalls == 2
MaxPending == 2

(***************************************************************************)
(* Text and bytes                                                          *)
(***************************************************************************)
hostKeySeparator == <<0, 1>>

\* the value of a destructured array element that is not there
Undefined == <<-1>>

\* "_", "//", "https:", "http:" as code units
Underscore == <<95>>
Slashes == <<47, 47>>
HttpProtocol == <<104, 116, 116, 112, 58>>

\* a default of "http:" for a URL without a scheme
DefaultProtocolHttp == HttpProtocol

\* if (!protocol) protocol = "https:"
DefaultProtocol == <<104, 116, 116, 112, 115, 58>>

ReplacementChar == 65533

\* Buffer.from(string): UTF-8 encoding of one code unit (a lone surrogate is
\* encoded as U+FFFD; surrogate pairs are outside the alphabets used here)
EncodeUnit(c) ==
    IF c < 128 THEN <<c>>
    ELSE IF c < 2048 THEN <<192 + (c \div 64), 128 + (c % 64)>>
    ELSE IF c >= 55296 /\ c <= 57343 THEN <<239, 191, 189>>
    ELSE <<224 + (c \div 4096), 128 + ((c \div 64) % 64), 128 + (c % 64)>>

RECURSIVE BufferFrom(_)
BufferFrom(s) ==
    IF s = <<>> THEN <<>>
    ELSE EncodeUnit(Head(s)) \o BufferFrom(Tail(s))

IsContinuation(b) == b >= 128 /\ b <= 191

\* Buffer.toString(): UTF-8 decoding, one- and two-byte sequences; any other
\* byte (a stray continuation byte, a lead byte without its continuation, a
\* lead byte of a longer form) becomes U+FFFD
RECURSIVE BufferToString(_)
BufferToString(b) ==
    IF b = <<>> THEN <<>>
    ELSE IF Head(b) < 128 THEN <<Head(b)>> \o BufferToString(Tail(b))
    ELSE IF Head(b) >= 194 /\ Head(b) <= 223 /\ Len(b) >= 2 /\ IsContinuation(b[2])
        THEN <<(Head(b) - 192) * 64 + (b[2] - 128)>> \o BufferToString(Tail(Tail(b)))
    ELSE <<ReplacementChar>> \o BufferToString(Tail(b))

\* String.prototype.slice(1)
Slice1(s) == IF s = <<>> THEN <<>> ELSE Tail(s)

IsPrefix(p, s) == Len(p) <= Len(s) /\ SubSeq(s, 1, Len(p)) = p

\* String.prototype.split(sep) for a non-empty separator
RECURSIVE SplitFrom(_, _, _)
SplitFrom(s, sep, acc) ==
    IF s = <<>> THEN <<acc>>
    ELSE IF IsPrefix(sep, s)
        THEN <<acc>> \o SplitFrom(SubSeq(s, Len(sep) + 1, Len(s)), sep, <<>>)
    ELSE SplitFrom(Tail(s), sep, Append(acc, Head(s)))

Split(s, sep) == SplitFrom(s, sep, <<>>)

\* the store's comparator: byte-wise lexicographic order
RECURSIVE BytesLeq(_, _)
BytesLeq(a, b) ==
    IF a = <<>> THEN TRUE
    ELSE IF b = <<>> THEN FALSE
    ELSE IF Head(a) # Head(b) THEN Head(a) < Head(b)
    ELSE BytesLeq(Tail(a), Tail(b))

BytesLess(a, b) == a # b /\ BytesLeq(a, b)

(***************************************************************************)
(* Key codec                                                               *)
(***************************************************************************)
\* keyFromUrl throws "host is required"
KeyFromUrlThrows(url) == url.host = <<>>

\* keyFromUrl(url, key, separator); an empty key is falsy and gets no suffix
keyFromUrl(url, key, separator) ==
    LET suffix == IF key # <<>> THEN separator \o key ELSE <<>>
        protocol == IF url.protocol = <<>> THEN DefaultProtocol ELSE url.protocol
    IN BufferFrom(Underscore \o protocol \o Slashes \o url.host \o suffix)

\* read: keyFromUrl(url, key)
EntryKey(url, key) == keyFromUrl(url, key, hostKeySeparator)

\* readAll: start = keyFromUrl(url)
ScanStart(url) == keyFromUrl(url, <<>>, hostKeySeparator)

\* the upper bound built with the default separator: "\u0000\u0001\u0001"
ScanEndWithSeparator(url) == keyFromUrl(url, <<1>>, hostKeySeparator)

\* readAll: end = keyFromUrl(url, "\u0001", "")
ScanEnd(url) == keyFromUrl(url, <<1>>, <<>>)

unpackValue(v) == Slice1(BufferToString(v))

\* readAll: const [ , actualKey ] = key.toString().split(hostKeySeparator)
ActualKey(rawKey) ==
    LET parts == Split(BufferToString(rawKey), hostKeySeparator)
    IN IF Len(parts) >= 2 THEN parts[2] ELSE Undefined

(***************************************************************************)
(* Inputs                                                                  *)
(***************************************************************************)
\* parsed URLs: https://a, https://ab, http://a, //a (no scheme), no host
UrlA == [protocol |-> DefaultProtocol, host |-> <<97>>]
UrlAB == [protocol |-> DefaultProtocol, host |-> <<97, 98>>]
UrlHttpA == [protocol |-> HttpProtocol, host |-> <<97>>]
UrlNoScheme == [protocol |-> <<>>, host |-> <<97>>]
UrlNoHost == [protocol |-> DefaultProtocol, host |-> <<>>]

HostedUrls == {UrlA, UrlAB, UrlHttpA, UrlNoScheme}
CallUrls == {UrlA, UrlAB, UrlNoHost}

\* application keys: "x", "y", "x\0\1y"; read is called with "x" or ""
KeyX == <<120>>
KeyY == <<121>>
KeyXSepY == <<120, 0, 1, 121>>
CallKeys == {KeyX, <<>>}

\* raw values: marker 0x01 + "d", marker + "e", and an empty value
ValD == <<1, 100>>
ValE == <<1, 101>>

\* the entries a store may hold
CandidateEntries ==
    { [key |-> EntryKey(UrlA, KeyX), value |-> ValD],
      [key |-> EntryKey(UrlA, KeyX), value |-> <<>>],
      [key |-> EntryKey(UrlA, KeyY), value |-> ValE],
      [key |-> EntryKey(UrlA, KeyXSepY), value |-> ValE],
      [key |-> EntryKey(UrlAB, KeyX), value |-> ValD],
      [key |-> ScanStart(UrlA), value |-> ValD] }

MaxEntries == 2

\* a store maps each key to one value
IsStore(S) == \A e1 \in S, e2 \in S : e1.key = e2.key => e1 = e2

Stores == { S \in SUBSET CandidateEntries : Cardinality(S) <= MaxEntries /\ IsStore(S) }

Calls == 1 .. MaxCalls

NoUrl == [protocol |-> <<>>, host |-> <<>>]
NoCall == [kind |-> "none", url |-> NoUrl, key |-> <<>>]
NoCounts == [get |-> 0, iterator |-> 0, next |-> 0, end |-> 0, close |-> 0]

(***************************************************************************)
(* State                                                                   *)
(***************************************************************************)
VARIABLES
    disk,       \* the path dbPath: "available", "missing", "noparent", "locked"
    store,      \* the entries of the store at dbPath
    created,    \* an open has created a store at dbPath
    call,       \* per call: read(url, key) or readAll(url)
    pc,         \* per call: where the call is suspended
    handle,     \* per call: the LevelUp handle openDb resolved to
    counts,     \* per call: calls made on its handle and iterator
    last,       \* per call: the key the iterator returned last
    mode,       \* per call: how the scan left its loop
    failure,    \* per call: the error the store reported to the call
    req,        \* per call: requests queued on the readAll generator
    yielded,    \* per call: the pairs readAll has yielded
    outcome,    \* per call: what the call settled with
    pulls,      \* per call: the next() requests its consumer has made
    raised,     \* per call: the errors the store has reported to it
    owner,      \* per handle: the calls whose openDb resolved to it
    users,      \* per handle: the calls that have called into it
    codec       \* one application of the key codec: inputs, stage, outputs

vars == <<disk, store, created, call, pc, handle, counts, last, mode, failure,
          req, yielded, outcome, pulls, raised, owner, users, codec>>

\* the variables of the store reader
reader == <<disk, store, created, call, pc, handle, counts, last, mode, failure,
            req, yielded, outcome, pulls, raised, owner, users>>

Pending == [kind |-> "pending", value |-> <<>>, error |-> "none"]
Value(v) == [kind |-> "value", value |-> v, error |-> "none"]
Error(e) == [kind |-> "error", value |-> <<>>, error |-> e]
Finished == [kind |-> "done", value |-> <<>>, error |-> "none"]

\* errors by the kinds of the specification
InvalidInput == {"HostRequired"}
NotFound == {"NotFoundError"}
StoreUnavailable == {"OpenError", "GetError", "NextError", "EndError"}

\* the codec at rest
CodecIdle ==
    [op |-> "idle", stage |-> "in", url |-> NoUrl, url2 |-> NoUrl, key |-> <<>>,
     raw |-> <<>>, entry |-> <<>>, other |-> <<>>, lower |-> <<>>, upper |-> <<>>,
     lower2 |-> <<>>, decoded |-> <<>>, result |-> Pending]

Init ==
    /\ disk \in {"available", "missing", "noparent", "locked"}
    /\ store \in Stores
    /\ (disk # "available" => store = {})
    /\ created = FALSE
    /\ call = [c \in Calls |-> NoCall]
    /\ pc = [c \in Calls |-> "idle"]
    /\ handle = [c \in Calls |-> "none"]
    /\ counts = [c \in Calls |-> NoCounts]
    /\ last = [c \in Calls |-> Undefined]
    /\ mode = [c \in Calls |-> "none"]
    /\ failure = [c \in Calls |-> "none"]
    /\ req = [c \in Calls |-> <<>>]
    /\ yielded = [c \in Calls |-> <<>>]
    /\ outcome = [c \in Calls |-> Pending]
    /\ pulls = [c \in Calls |-> 0]
    /\ raised = [c \in Calls |-> {}]
    /\ owner = [h \in Calls |-> {}]
    /\ users = [h \in Calls |-> {}]
    /\ codec = CodecIdle

(***************************************************************************)
(* The store behind levelup(leveldown(dbPath), callback)                   *)
(***************************************************************************)
\* the store's lock is held by a handle that is open or still closing
LockHeld == \E d \in Calls : handle[d] \in {"open", "closing"}

\* leveldown is opened with its default options (createIfMissing): a missing
\* store is created when its parent directory exists
OpenSucceeds == disk \in {"available", "missing"} /\ ~LockHeld

\* db.get(key): the value stored under key, if any
Lookup(key) == { e \in store : e.key = key }

\* db.iterator({gte, lte}): the entries still ahead of the iterator
Ahead(c) ==
    { e \in store :
        /\ BytesLeq(ScanStart(call[c].url), e.key)
        /\ BytesLeq(e.key, ScanEnd(call[c].url))
        /\ (last[c] # Undefined => BytesLess(last[c], e.key)) }

NextEntry(c) == CHOOSE e \in Ahead(c) : \A f \in Ahead(c) : BytesLeq(e.key, f.key)

(***************************************************************************)
(* Calls and consumers                                                     *)
(***************************************************************************)
\* calls are started in the order of their numbers
IsNextCall(c) == call[c].kind = "none" /\ \A d \in Calls : d < c => call[d].kind # "none"

\* read(url, key) is called: it runs up to `await this.openDb()`
StartRead(c, u, k) ==
    /\ IsNextCall(c)
    /\ call' = [call EXCEPT ![c] = [kind |-> "read", url |-> u, key |-> k]]
    /\ pc' = [pc EXCEPT ![c] = "opening"]
    /\ UNCHANGED <<disk, store, created, handle, counts, last, mode, failure,
                   req, yielded, outcome>>
    /\ UNCHANGED <<pulls, raised, owner, users, codec>>

\* readAll as a plain async function: the call itself derives the bounds and
\* calls openDb
StartReadAllEager(c, u) ==
    /\ IsNextCall(c)
    /\ call' = [call EXCEPT ![c] = [kind |-> "readAll", url |-> u, key |-> <<>>]]
    /\ pc' = [pc EXCEPT ![c] = IF KeyFromUrlThrows(u) THEN "done" ELSE "opening"]
    /\ outcome' = [outcome EXCEPT ![c] =
                      IF KeyFromUrlThrows(u) THEN Error("HostRequired") ELSE @]
    /\ UNCHANGED <<disk, store, created, handle, counts, last, mode, failure,
                   req, yielded>>
    /\ UNCHANGED <<pulls, raised, owner, users, codec>>

\* readAll(url) is called: the generator is created suspended at its start
StartReadAll(c, u) ==
    /\ IsNextCall(c)
    /\ call' = [call EXCEPT ![c] = [kind |-> "readAll", url |-> u, key |-> <<>>]]
    /\ pc' = [pc EXCEPT ![c] = "start"]
    /\ UNCHANGED <<disk, store, created, handle, counts, last, mode, failure,
                   req, yielded, outcome>>
    /\ UNCHANGED <<pulls, raised, owner, users, codec>>

\* the consumer calls next() on the generator
Pull(c) ==
    /\ call[c].kind = "readAll"
    /\ outcome[c] = Pending
    /\ Len(req[c]) < MaxPending
    /\ req' = [req EXCEPT ![c] = Append(@, "next")]
    /\ UNCHANGED <<disk, store, created, call, pc, handle, counts, last, mode,
                   failure, yielded, outcome>>
    /\ pulls' = [pulls EXCEPT ![c] = @ + 1]
    /\ UNCHANGED <<raised, owner, users, codec>>

\* the consumer abandons the sequence: return() on the generator
Abandon(c) ==
    /\ call[c].kind = "readAll"
    /\ outcome[c] = Pending
    /\ Len(req[c]) < MaxPending
    /\ req' = [req EXCEPT ![c] = Append(@, "return")]
    /\ UNCHANGED <<disk, store, created, call, pc, handle, counts, last, mode,
                   failure, yielded, outcome>>
    /\ UNCHANGED <<pulls, raised, owner, users, codec>>

\* a factory that keeps the first handle it made and hands it to every call
OpenedHandleMemo(c) == 1

\* openDb makes a new levelup instance for every call; the instance, and the
\* local `db` of the call, are named by the call that made it
OpenedHandle(c) == c

\* the call calls into the handle its `db` refers to
Use(c) == users' = [users EXCEPT ![OpenedHandle(c)] = @ \cup {c}]

\* the store reports an error to the call
Raise(c, e) == raised' = [raised EXCEPT ![c] = @ \cup {e}]

\* db.close(): the call is made and not awaited
CloseHandle(c) ==
    /\ handle' = [handle EXCEPT ![OpenedHandle(c)] = "closing"]
    /\ counts' = [counts EXCEPT ![c].close = @ + 1]
    /\ Use(c)

\* the store finishes closing a handle and gives up its lock; an error of the
\* close goes to the promise db.close() returned to the call
CloseDone(c, closeError) ==
    /\ handle[c] = "closing"
    /\ handle' = [handle EXCEPT ![c] = "closed"]
    /\ UNCHANGED <<disk, store, created, call, pc, counts, last, mode, failure,
                   req, yielded, outcome>>
    /\ IF closeError THEN Raise(c, "CloseError") ELSE UNCHANGED raised
    /\ UNCHANGED <<pulls, owner, users, codec>>

\* the open callback's effect on the path
OpenEffect ==
    /\ disk' = IF OpenSucceeds THEN "available" ELSE disk
    /\ created' = (created \/ (OpenSucceeds /\ disk = "missing"))
    /\ UNCHANGED store

(***************************************************************************)
(* read                                                                    *)
(***************************************************************************)
\* the promise of read settles without its handle
ReadFail(c, e) ==
    /\ outcome' = [outcome EXCEPT ![c] = Error(e)]
    /\ pc' = [pc EXCEPT ![c] = "returned"]
    /\ UNCHANGED <<handle, counts, users>>

\* read with db.close() after the try block instead of in its finally: an
\* error leaves with the handle open
ReadSettleNoFinally(c, result) ==
    /\ IF result.kind = "error"
        THEN /\ handle' = [handle EXCEPT ![OpenedHandle(c)] = "open"]
             /\ UNCHANGED <<counts, users>>
        ELSE CloseHandle(c)
    /\ outcome' = [outcome EXCEPT ![c] = result]
    /\ pc' = [pc EXCEPT ![c] = "returned"]

\* try { ... } finally { db.close() }: the handle is closed, then the promise
\* of read settles with the result or the error
ReadSettle(c, result) ==
    /\ CloseHandle(c)
    /\ outcome' = [outcome EXCEPT ![c] = result]
    /\ pc' = [pc EXCEPT ![c] = "returned"]

\* openDb settles in read; on a handle, keyFromUrl runs and db.get is called
ReadOpenDone(c) ==
    /\ call[c].kind = "read"
    /\ pc[c] = "opening"
    /\ OpenEffect
    /\ IF ~OpenSucceeds
        THEN ReadFail(c, "OpenError")
        ELSE IF KeyFromUrlThrows(call[c].url)
            THEN /\ ReadSettle(c, Error("HostRequired"))
            ELSE /\ handle' = [handle EXCEPT ![OpenedHandle(c)] = "open"]
                 /\ counts' = [counts EXCEPT ![c].get = @ + 1]
                 /\ Use(c)
                 /\ pc' = [pc EXCEPT ![c] = "awaitGet"]
                 /\ UNCHANGED outcome
    /\ UNCHANGED <<call, last, mode, failure, req, yielded>>
    /\ owner' = IF OpenSucceeds THEN [owner EXCEPT ![OpenedHandle(c)] = @ \cup {c}] ELSE owner
    /\ raised' = IF OpenSucceeds THEN raised ELSE [raised EXCEPT ![c] = @ \cup {"OpenError"}]
    /\ UNCHANGED <<pulls, codec>>

\* read reporting every failed get alike, as a store error
GetResultUnavailable(found, ioError) ==
    IF ioError \/ found = {} THEN Error("GetError")
    ELSE Value(unpackValue((CHOOSE e \in found : TRUE).value))

\* what `await db.get(key); return unpackValue(v)` comes to
GetResult(found, ioError) ==
    IF ioError THEN Error("GetError")
    ELSE IF found = {} THEN Error("NotFoundError")
    ELSE Value(unpackValue((CHOOSE e \in found : TRUE).value))

\* the get callback fires
GetCallback(c, ioError) ==
    /\ call[c].kind = "read"
    /\ pc[c] = "awaitGet"
    /\ ReadSettle(c, GetResult(Lookup(EntryKey(call[c].url, call[c].key)), ioError))
    /\ failure' = [failure EXCEPT ![c] = IF ioError THEN "GetError" ELSE @]
    /\ UNCHANGED <<disk, store, created, call, last, mode, req, yielded>>
    /\ IF ioError THEN Raise(c, "GetError") ELSE UNCHANGED raised
    /\ UNCHANGED <<pulls, owner, codec>>

\* the caller of read observes the settled promise
Observe(c) ==
    /\ call[c].kind = "read"
    /\ pc[c] = "returned"
    /\ pc' = [pc EXCEPT ![c] = "done"]
    /\ UNCHANGED <<disk, store, created, call, handle, counts, last, mode,
                   failure, req, yielded, outcome>>
    /\ UNCHANGED <<pulls, raised, owner, users, codec>>

(***************************************************************************)
(* readAll                                                                 *)
(***************************************************************************)
HeadIs(c, r) == req[c] # <<>> /\ Head(req[c]) = r

\* the request at the head of the generator's queue is answered
Answer(c) == req' = [req EXCEPT ![c] = Tail(@)]

\* first next(): the bounds are derived, then openDb is called
ReadAllStart(c) ==
    /\ call[c].kind = "readAll"
    /\ pc[c] = "start"
    /\ HeadIs(c, "next")
    /\ IF KeyFromUrlThrows(call[c].url)
        THEN /\ pc' = [pc EXCEPT ![c] = "done"]
             /\ outcome' = [outcome EXCEPT ![c] = Error("HostRequired")]
             /\ Answer(c)
        ELSE /\ pc' = [pc EXCEPT ![c] = "opening"]
             /\ UNCHANGED <<outcome, req>>
    /\ UNCHANGED <<disk, store, created, call, handle, counts, last, mode,
                   failure, yielded>>
    /\ UNCHANGED <<pulls, raised, owner, users, codec>>

\* return() on a generator that has not started: it completes, no code runs
ReadAllReturnAtStart(c) ==
    /\ call[c].kind = "readAll"
    /\ pc[c] = "start"
    /\ HeadIs(c, "return")
    /\ pc' = [pc EXCEPT ![c] = "done"]
    /\ outcome' = [outcome EXCEPT ![c] = Finished]
    /\ Answer(c)
    /\ UNCHANGED <<disk, store, created, call, handle, counts, last, mode,
                   failure, yielded>>
    /\ UNCHANGED <<pulls, raised, owner, users, codec>>

\* openDb settles in readAll; on a handle, the iterator is created and
\* asyncIterable makes its first iterator.next call
ReadAllOpenDone(c) ==
    /\ call[c].kind = "readAll"
    /\ pc[c] = "opening"
    /\ OpenEffect
    /\ IF ~OpenSucceeds
        THEN /\ pc' = [pc EXCEPT ![c] = "done"]
             /\ outcome' = [outcome EXCEPT ![c] = Error("OpenError")]
             /\ Answer(c)
             /\ UNCHANGED <<handle, counts, users>>
        ELSE /\ handle' = [handle EXCEPT ![OpenedHandle(c)] = "open"]
             /\ counts' = [counts EXCEPT ![c].iterator = @ + 1, ![c].next = @ + 1]
             /\ Use(c)
             /\ pc' = [pc EXCEPT ![c] = "awaitNext"]
             /\ UNCHANGED <<outcome, req>>
    /\ UNCHANGED <<call, last, mode, failure, yielded>>
    /\ owner' = IF OpenSucceeds THEN [owner EXCEPT ![OpenedHandle(c)] = @ \cup {c}] ELSE owner
    /\ raised' = IF OpenSucceeds THEN raised ELSE [raised EXCEPT ![c] = @ \cup {"OpenError"}]
    /\ UNCHANGED <<pulls, codec>>

\* asyncIterable without the finally: iterator.end is called when the loop is
\* left early or by an error, not at the end of the range
LeaveLoopNoEndOnExhaustion(c, m, e) ==
    /\ mode' = [mode EXCEPT ![c] = m]
    /\ failure' = [failure EXCEPT ![c] = e]
    /\ counts' = [counts EXCEPT ![c].end = IF m = "exhausted" THEN @ ELSE @ + 1]
    /\ pc' = [pc EXCEPT ![c] = "awaitEnd"]
    /\ Use(c)

\* asyncIterable whose next promise is never settled at the end of the range:
\* the callback has fired, and the generator stays suspended in its await
LeaveLoopHang(c, m, e) ==
    IF m = "exhausted"
        THEN /\ pc' = [pc EXCEPT ![c] = "hung"]
             /\ UNCHANGED <<mode, failure, counts, users>>
        ELSE /\ mode' = [mode EXCEPT ![c] = m]
             /\ failure' = [failure EXCEPT ![c] = e]
             /\ counts' = [counts EXCEPT ![c].end = @ + 1]
             /\ pc' = [pc EXCEPT ![c] = "awaitEnd"]
             /\ Use(c)

\* asyncIterable leaves its loop (return, or a rejected next): its finally
\* calls iterator.end and awaits the callback
LeaveLoop(c, m, e) ==
    /\ mode' = [mode EXCEPT ![c] = m]
    /\ failure' = [failure EXCEPT ![c] = e]
    /\ counts' = [counts EXCEPT ![c].end = @ + 1]
    /\ pc' = [pc EXCEPT ![c] = "awaitEnd"]
    /\ Use(c)

\* the pair readAll yields for an entry of the store
Pair(e) == [key |-> ActualKey(e.key), value |-> unpackValue(e.value)]

\* the iterator.next callback fires: an error, the end of the range, or an
\* entry, which readAll decodes and yields to the consumer
NextCallback(c, ioError) ==
    /\ call[c].kind = "readAll"
    /\ pc[c] = "awaitNext"
    /\ IF ioError
        THEN /\ LeaveLoop(c, "throw", "NextError")
             /\ UNCHANGED <<last, yielded, req>>
        ELSE IF Ahead(c) = {}
            THEN /\ LeaveLoop(c, "exhausted", failure[c])
                 /\ UNCHANGED <<last, yielded, req>>
            ELSE /\ last' = [last EXCEPT ![c] = NextEntry(c).key]
                 /\ yielded' = [yielded EXCEPT ![c] = Append(@, Pair(NextEntry(c)))]
                 /\ pc' = [pc EXCEPT ![c] = "suspendedYield"]
                 /\ Answer(c)
                 /\ UNCHANGED <<mode, failure, counts, users>>
    /\ UNCHANGED <<disk, store, created, call, handle, outcome>>
    /\ IF ioError THEN Raise(c, "NextError") ELSE UNCHANGED raised
    /\ UNCHANGED <<pulls, owner, codec>>

\* a scan that reads ahead: it asks for the next entry as soon as it has
\* yielded one, without a request of the consumer
ResumeNextEager(c) ==
    /\ call[c].kind = "readAll"
    /\ pc[c] = "suspendedYield"
    /\ counts' = [counts EXCEPT ![c].next = @ + 1]
    /\ pc' = [pc EXCEPT ![c] = "awaitNext"]
    /\ Use(c)
    /\ UNCHANGED <<disk, store, created, call, handle, last, mode, failure,
                   req, yielded, outcome>>
    /\ UNCHANGED <<pulls, raised, owner, codec>>

\* next() on the generator suspended at its yield: the loop asks for the next
\* entry
ResumeNext(c) ==
    /\ call[c].kind = "readAll"
    /\ pc[c] = "suspendedYield"
    /\ HeadIs(c, "next")
    /\ counts' = [counts EXCEPT ![c].next = @ + 1]
    /\ pc' = [pc EXCEPT ![c] = "awaitNext"]
    /\ Use(c)
    /\ UNCHANGED <<disk, store, created, call, handle, last, mode, failure,
                   req, yielded, outcome>>
    /\ UNCHANGED <<pulls, raised, owner, codec>>

\* return() on the generator suspended at its yield: for await closes the
\* inner generator, whose finally runs
ResumeReturn(c) ==
    /\ call[c].kind = "readAll"
    /\ pc[c] = "suspendedYield"
    /\ HeadIs(c, "return")
    /\ LeaveLoop(c, "return", failure[c])
    /\ UNCHANGED <<disk, store, created, call, handle, last, req, yielded, outcome>>
    /\ UNCHANGED <<pulls, raised, owner, codec>>

\* what the generator completes with once iterator.end has called back
ScanResult(c, endError) ==
    IF endError THEN Error("EndError")
    ELSE IF mode[c] = "throw" THEN Error(failure[c])
    ELSE Finished

\* readAll with db.close() after the loop instead of in a finally: a scan that
\* ends with an error leaves with the handle open
ScanSettleNoFinally(c, endError) ==
    /\ IF ScanResult(c, endError).kind = "error"
        THEN UNCHANGED <<handle, counts, users>>
        ELSE CloseHandle(c)
    /\ outcome' = [outcome EXCEPT ![c] = ScanResult(c, endError)]
    /\ pc' = [pc EXCEPT ![c] = "done"]
    /\ Answer(c)

\* finally { db.close() } of readAll, then the generator completes
ScanSettle(c, endError) ==
    /\ CloseHandle(c)
    /\ outcome' = [outcome EXCEPT ![c] = ScanResult(c, endError)]
    /\ pc' = [pc EXCEPT ![c] = "done"]
    /\ Answer(c)

\* the iterator.end callback fires
EndCallback(c, endError) ==
    /\ call[c].kind = "readAll"
    /\ pc[c] = "awaitEnd"
    /\ ScanSettle(c, endError)
    /\ UNCHANGED <<disk, store, created, call, last, mode, failure, yielded>>
    /\ IF endError THEN Raise(c, "EndError") ELSE UNCHANGED raised
    /\ UNCHANGED <<pulls, owner, codec>>

\* a request queued behind the one that completed the generator is answered
\* with done
Drain(c) ==
    /\ call[c].kind = "readAll"
    /\ pc[c] = "done"
    /\ req[c] # <<>>
    /\ Answer(c)
    /\ UNCHANGED <<disk, store, created, call, pc, handle, counts, last, mode,
                   failure, yielded, outcome>>
    /\ UNCHANGED <<pulls, raised, owner, users, codec>>

(***************************************************************************)
(* The key codec applied to bounded inputs                                 *)
(***************************************************************************)
\* code units of application keys: NUL, SOH, "x", e-acute
KeyUnits == {0, 1, 120, 233}

\* bytes of raw values: the marker 0x01, "d", and the two bytes of e-acute
RawBytes == {1, 100, 195, 169}

SeqsUpTo(S, n) == UNION { [1 .. m -> S] : m \in 0 .. n }

AppKeys == SeqsUpTo(KeyUnits, MaxKeyLen)
RawValues == SeqsUpTo(RawBytes, MaxRawLen)

InitCodec ==
    /\ disk = "available"
    /\ store = {}
    /\ created = FALSE
    /\ call = [c \in Calls |-> NoCall]
    /\ pc = [c \in Calls |-> "idle"]
    /\ handle = [c \in Calls |-> "none"]
    /\ counts = [c \in Calls |-> NoCounts]
    /\ last = [c \in Calls |-> Undefined]
    /\ mode = [c \in Calls |-> "none"]
    /\ failure = [c \in Calls |-> "none"]
    /\ req = [c \in Calls |-> <<>>]
    /\ yielded = [c \in Calls |-> <<>>]
    /\ outcome = [c \in Calls |-> Pending]
    /\ pulls = [c \in Calls |-> 0]
    /\ raised = [c \in Calls |-> {}]
    /\ owner = [h \in Calls |-> {}]
    /\ users = [h \in Calls |-> {}]
    /\ \/ \E u \in HostedUrls, u2 \in HostedUrls, k \in AppKeys :
            codec = [CodecIdle EXCEPT !.op = "keys", !.url = u, !.url2 = u2, !.key = k]
       \/ \E r \in RawValues :
            codec = [CodecIdle EXCEPT !.op = "value", !.raw = r]

\* the keys read and readAll derive for a URL
CodecDeriveKeys ==
    /\ codec.op = "keys"
    /\ codec.stage = "in"
    /\ codec' = [codec EXCEPT !.stage = "derived",
                              !.entry = EntryKey(codec.url, codec.key),
                              !.other = EntryKey(codec.url2, codec.key),
                              !.lower = ScanStart(codec.url),
                              !.lower2 = ScanStart(codec.url2),
                              !.upper = ScanEnd(codec.url)]
    /\ UNCHANGED reader

\* readAll decodes the key of an entry the scan retrieved
CodecDecodeKey ==
    /\ codec.stage = "derived"
    /\ codec' = [codec EXCEPT !.stage = "decoded", !.decoded = ActualKey(codec.entry)]
    /\ UNCHANGED reader

\* unpackValue applied to a raw value; it has no throwing path
CodecUnpack ==
    /\ codec.op = "value"
    /\ codec.stage = "in"
    /\ codec' = [codec EXCEPT !.stage = "unpacked", !.result = Value(unpackValue(codec.raw))]
    /\ UNCHANGED reader

NextCodec ==
    \/ CodecDeriveKeys
    \/ CodecDecodeKey
    \/ CodecUnpack

SpecCodec == InitCodec /\ [][NextCodec]_vars

(***************************************************************************)
(* Specification                                                           *)
(***************************************************************************)
Next ==
    \/ \E c \in Calls, u \in CallUrls, k \in CallKeys : StartRead(c, u, k)
    \/ \E c \in Calls, u \in CallUrls : StartReadAll(c, u)
    \/ \E c \in Calls : Pull(c)
    \/ \E c \in Calls : Abandon(c)
    \/ \E c \in Calls, closeError \in BOOLEAN : CloseDone(c, closeError)
    \/ \E c \in Calls : ReadOpenDone(c)
    \/ \E c \in Calls, ioError \in BOOLEAN : GetCallback(c, ioError)
    \/ \E c \in Calls : Observe(c)
    \/ \E c \in Calls : ReadAllStart(c)
    \/ \E c \in Calls : ReadAllReturnAtStart(c)
    \/ \E c \in Calls : ReadAllOpenDone(c)
    \/ \E c \in Calls, ioError \in BOOLEAN : NextCallback(c, ioError)
    \/ \E c \in Calls : ResumeNext(c)
    \/ \E c \in Calls : ResumeReturn(c)
    \/ \E c \in Calls, endError \in BOOLEAN : EndCallback(c, endError)
    \/ \E c \in Calls : Drain(c)

Spec == Init /\ [][Next]_vars

\* the store used for liveness: two entries of https://a
StoreLive ==
    { [key |-> EntryKey(UrlA, KeyX), value |-> ValD],
      [key |-> EntryKey(UrlA, KeyY), value |-> ValE] }

InitLive == Init /\ disk = "available" /\ store = StoreLive

\* the steps of a call that are not its consumer's: a store callback fires,
\* the generator runs on a request, the caller of read takes its result; at
\* most one of them is enabled at a time, and it stays enabled until taken
Progress(c) ==
    \/ ReadOpenDone(c)
    \/ \E ioError \in BOOLEAN : GetCallback(c, ioError)
    \/ Observe(c)
    \/ ReadAllStart(c)
    \/ ReadAllReturnAtStart(c)
    \/ ReadAllOpenDone(c)
    \/ NextCallback(c, TRUE)
    \/ NextCallback(c, FALSE)
    \/ ResumeNext(c)
    \/ ResumeReturn(c)
    \/ \E endError \in BOOLEAN : EndCallback(c, endError)

\* every store callback fires and the event loop runs what is ready; the
\* consumer of a sequence goes on asking or abandons
Fairness ==
    \A c \in Calls :
        /\ WF_vars(Progress(c))
        /\ WF_vars(Pull(c) \/ Abandon(c))

SpecLive == InitLive /\ [][Next]_vars /\ Fairness

(***************************************************************************)
(* Properties of the store reader                                          *)
(***************************************************************************)
Opened(c) == handle[c] # "none"

ReadAllCalls == { c \in Calls : call[c].kind = "readAll" }
ReadCalls == { c \in Calls : call[c].kind = "read" }

\* C1: a readAll scan whose open succeeded never calls iterator.end or close
\* twice, and once it has finished (exhausted, abandoned by return(), or failed
\* by an iterator.next error) it has called each of them exactly once
C1_ReleasedExactlyOnce ==
    \A c \in ReadAllCalls :
        /\ counts[c].end <= 1
        /\ counts[c].close <= 1
        /\ (Opened(c) /\ pc[c] = "done") =>
              /\ mode[c] \in {"exhausted", "return", "throw"}
              /\ counts[c].end = 1
              /\ counts[c].close = 1

\* one scan failed by an iterator.next error after a yielded item, another
\* abandoned after a yielded item, both finished
C1_Witness ==
    \E c \in ReadAllCalls, d \in ReadAllCalls :
        /\ pc[c] = "done" /\ mode[c] = "throw" /\ failure[c] = "NextError"
        /\ Len(yielded[c]) >= 1
        /\ pc[d] = "done" /\ mode[d] = "return" /\ Len(yielded[d]) >= 1
        /\ counts[c].end = 1 /\ counts[c].close = 1
        /\ counts[d].end = 1 /\ counts[d].close = 1

\* a scan that ran to the end of its range has released once, too
C1_WitnessExhausted ==
    \E c \in ReadAllCalls :
        /\ pc[c] = "done" /\ mode[c] = "exhausted" /\ Len(yielded[c]) = MaxEntries
        /\ counts[c].end = 1 /\ counts[c].close = 1

\* C2: a read whose open succeeded never calls close twice, and once its
\* promise has settled (value decoded, get failed, or keyFromUrl threw) it has
\* called close exactly once
C2_ReadClosesOnce ==
    \A c \in ReadCalls :
        /\ counts[c].close <= 1
        /\ (Opened(c) /\ pc[c] \in {"returned", "done"}) => counts[c].close = 1

\* a read of a URL without a host has settled with the error of keyFromUrl and
\* has closed the handle it had opened
C2_Witness ==
    \E c \in ReadCalls :
        /\ pc[c] = "done"
        /\ outcome[c] = Error("HostRequired")
        /\ Opened(c)
        /\ counts[c].close = 1

\* C3: the caller of read never observes the outcome while the handle that
\* read opened is still held
C3_ReleasedBeforeSurfaced ==
    \A c \in ReadCalls : pc[c] = "done" => handle[c] \notin {"open", "closing"}

\* C4: once return() has completed on a readAll sequence abandoned after
\* exactly one yielded item, its handle no longer holds the store
C4_ReopenableAfterAbandon ==
    \A c \in ReadAllCalls :
        (pc[c] = "done" /\ mode[c] = "return" /\ Len(yielded[c]) = 1)
            => handle[c] \notin {"open", "closing"}

\* "https:", the scheme of the origin of a URL that has none
HttpsScheme == <<104, 116, 116, 112, 115, 58>>

\* the origin of a URL: its scheme, https when it has none, and its host
OriginOf(url) ==
    [scheme |-> IF url.protocol = <<>> THEN HttpsScheme ELSE url.protocol,
     host |-> url.host]

\* the store's key format: "_<scheme>//<host>", then 0x00 0x01 and the
\* application key for an entry
OriginBytes(url) ==
    BufferFrom(Underscore \o OriginOf(url).scheme \o Slashes \o OriginOf(url).host)

WireKey(url, k) == OriginBytes(url) \o <<0, 1>> \o BufferFrom(k)

\* the application keys of the candidate entries
StoredAppKeys == {KeyX, KeyY, KeyXSepY}

\* the entries of the store that belong to the origin of a URL
OriginEntries(url) ==
    { e \in store : \E k \in StoredAppKeys : e.key = WireKey(url, k) }

AppKeyOf(url, e) == CHOOSE k \in StoredAppKeys : e.key = WireKey(url, k)

\* the position of an entry among the entries of its origin, in key order
Rank(url, e) == Cardinality({ f \in OriginEntries(url) : BytesLeq(f.key, e.key) })

\* C5: a readAll consumed to its end has yielded exactly one pair
\* (application key, decoded value) per stored entry of the origin, in
\* ascending byte order of the store keys, and nothing else
C5_YieldsOriginEntries ==
    \A c \in ReadAllCalls :
        (pc[c] = "done" /\ mode[c] = "exhausted" /\ outcome[c] = Finished) =>
            /\ Len(yielded[c]) = Cardinality(OriginEntries(call[c].url))
            /\ \A e \in OriginEntries(call[c].url) :
                  yielded[c][Rank(call[c].url, e)] =
                      [key |-> AppKeyOf(call[c].url, e), value |-> unpackValue(e.value)]

InBounds(k, lo, hi) == BytesLeq(lo, k) /\ BytesLeq(k, hi)

\* C6: the scan bounds of a URL are its origin-only key and that key followed
\* by the byte 0x01; they contain the entry key of every application key of
\* the URL and exclude the entry keys of every URL of another origin
C6_BoundsDelimitOrigin ==
    codec.stage \in {"derived", "decoded"} =>
        /\ codec.lower = OriginBytes(codec.url)
        /\ codec.upper = OriginBytes(codec.url) \o <<1>>
        /\ InBounds(codec.entry, codec.lower, codec.upper)
        /\ OriginOf(codec.url2) # OriginOf(codec.url)
              => ~InBounds(codec.other, codec.lower, codec.upper)

\* keys derived for https://a and for https://ab, whose origin key extends
\* the first one's, with an application key that starts with 0x01
C6_Witness ==
    /\ codec.stage = "derived"
    /\ codec.url = UrlA
    /\ codec.url2 = UrlAB
    /\ codec.key = <<1, 233>>
    /\ InBounds(codec.entry, codec.lower, codec.upper)
    /\ ~InBounds(codec.other, codec.lower, codec.upper)

\* C7: a read whose key derived, whose store opened and answered the get, and
\* whose derived key is not in the store fails with NotFound, not with
\* StoreUnavailable, and returns no value
C7_MissingKeyIsNotFound ==
    \A c \in ReadCalls :
        ( /\ pc[c] \in {"returned", "done"}
          /\ Opened(c)
          /\ ~KeyFromUrlThrows(call[c].url)
          /\ failure[c] = "none"
          /\ Lookup(EntryKey(call[c].url, call[c].key)) = {} ) =>
            /\ outcome[c].kind = "error"
            /\ outcome[c].error \in NotFound
            /\ outcome[c].error \notin StoreUnavailable

\* a read of "x" at https://ab settled with NotFound on a store that holds
\* "x" for https://a only
C7_Witness ==
    \E c \in ReadCalls :
        /\ pc[c] = "done"
        /\ call[c].url = UrlAB
        /\ call[c].key = KeyX
        /\ Lookup(EntryKey(UrlA, KeyX)) # {}
        /\ outcome[c] = Error("NotFoundError")

\* C8: an open of a path that does not exist fails with StoreUnavailable: the
\* call gets no handle, makes no get or iterator call, and no store is created
C8_MissingPathFails ==
    [][ \A c \in Calls :
          (disk = "missing" /\ pc[c] = "opening" /\ pc'[c] # "opening") =>
              /\ outcome'[c] = Error("OpenError")
              /\ handle'[c] = "none"
              /\ counts'[c] = NoCounts
              /\ disk' = "missing"
              /\ ~created' ]_vars

\* C13: once a call has settled, every error the store reported to it (from
\* get, iterator.next, iterator.end or close) is the error the caller got
C13_ErrorsSurface ==
    \A c \in Calls :
        pc[c] = "done" => \A e \in raised[c] : outcome[c] = Error(e)

\* the iterator.next calls of a scan that are still waiting for their callback
Outstanding(c) ==
    counts[c].next - Len(yielded[c])
        - (IF mode[c] \in {"exhausted", "throw"} THEN 1 ELSE 0)

\* C14: a scan calls iterator.next only for a next() of its consumer: it has
\* made at most as many calls as the consumer has made requests, at most one
\* more than it has yielded pairs, and at most one call is outstanding
C14_PullBased ==
    \A c \in ReadAllCalls :
        /\ counts[c].next <= pulls[c]
        /\ counts[c].next <= Len(yielded[c]) + 1
        /\ Outstanding(c) = (IF pc[c] = "awaitNext" THEN 1 ELSE 0)

\* a consumer has asked twice at once on a store of two entries of the origin:
\* a single iterator.next call is outstanding
C14_Witness ==
    \E c \in ReadAllCalls :
        /\ pulls[c] = 2
        /\ Len(req[c]) = 2
        /\ pc[c] = "awaitNext"
        /\ counts[c].next = 1
        /\ Cardinality(Ahead(c)) = 2

\* C15: readAll never yields a pair whose application key is undefined (a key
\* without the separator fails the scan with MalformedValue instead)
C15_NoUndefinedKey ==
    \A c \in ReadAllCalls :
        \A i \in 1 .. Len(yielded[c]) : yielded[c][i].key # Undefined

\* C16: a call for a URL without a host never opens the store, and when it
\* fails it fails with InvalidInput
C16_KeyBeforeOpen ==
    \A c \in Calls :
        (call[c].kind # "none" /\ KeyFromUrlThrows(call[c].url)) =>
            /\ pc[c] # "opening"
            /\ handle[c] = "none"
            /\ outcome[c].kind = "error" => outcome[c].error \in InvalidInput

\* the handles a call has got from openDb
HandlesOf(c) == { h \in Calls : c \in owner[h] }

\* C17: no handle is the handle of two calls, a handle is called into only by
\* the call whose openDb resolved to it, and a call has one handle at most:
\* exactly one once it has called get, iterator, next, end or close
C17_HandleExclusive ==
    /\ \A h \in Calls :
          /\ Cardinality(owner[h]) <= 1
          /\ users[h] \subseteq owner[h]
    /\ \A c \in Calls :
          /\ Cardinality(HandlesOf(c)) <= 1
          /\ counts[c] # NoCounts => Cardinality(HandlesOf(c)) = 1
          /\ handle[c] # "none" => owner[c] = {c}

\* a read and a scan have both run on the store, each on the handle it opened
C17_Witness ==
    \E c \in ReadCalls, d \in ReadAllCalls :
        /\ owner[c] = {c} /\ users[c] = {c}
        /\ owner[d] = {d} /\ users[d] = {d}
        /\ counts[c].get = 1 /\ counts[c].close = 1
        /\ counts[d].next >= 1 /\ counts[d].end = 1 /\ counts[d].close = 1

\* C18: a call that has got a handle eventually calls close and delivers its
\* outcome; a scan has then ended its iterator as well
C18_EventuallyClosed ==
    \A c \in Calls :
        Opened(c) ~>
            ( /\ counts[c].close = 1
              /\ pc[c] = "done"
              /\ outcome[c] # Pending
              /\ call[c].kind = "readAll" => counts[c].end = 1 )

\* a scan has run through both entries of its origin and has released
C18_Witness ==
    \E c \in ReadAllCalls :
        /\ pc[c] = "done"
        /\ mode[c] = "exhausted"
        /\ Len(yielded[c]) = 2
        /\ counts[c].end = 1
        /\ counts[c].close = 1
        /\ handle[c] = "closed"

\* C19: the store calls of a scan come in the order open, iterator, next...,
\* end, close: the iterator is created once, on the handle just opened; next
\* is called on an open handle before end and close; end is called once the
\* iterator exists and before close; close is called in the step in which the
\* end callback fires
C19_ScanOrder ==
    [][ \A c \in Calls :
          call'[c].kind = "readAll" =>
            /\ counts'[c].iterator > counts[c].iterator =>
                  /\ counts[c] = NoCounts
                  /\ handle[c] = "none" /\ handle'[c] = "open"
            /\ counts'[c].next > counts[c].next =>
                  /\ counts'[c].iterator = 1
                  /\ handle'[c] = "open"
                  /\ counts[c].end = 0 /\ counts[c].close = 0
            /\ counts'[c].end > counts[c].end =>
                  /\ counts[c].iterator = 1
                  /\ counts[c].end = 0 /\ counts[c].close = 0
            /\ counts'[c].close > counts[c].close =>
                  /\ counts[c].end = 1
                  /\ counts[c].close = 0
                  /\ pc[c] = "awaitEnd" ]_vars

\* a scan abandoned after its second pair: one iterator, two next calls, then
\* end, then close
C19_Witness ==
    \E c \in ReadAllCalls :
        /\ pc[c] = "done"
        /\ mode[c] = "return"
        /\ counts[c] = [get |-> 0, iterator |-> 1, next |-> 2, end |-> 1, close |-> 1]

\* C20: a readAll sequence whose consumer has made no next() request has
\* derived no key and touched no store: it has no handle, has made no store
\* call and got no error, and when abandoned it is simply finished
C20_LazyStart ==
    \A c \in ReadAllCalls :
        pulls[c] = 0 =>
            /\ pc[c] \in {"start", "done"}
            /\ handle[c] = "none"
            /\ HandlesOf(c) = {}
            /\ counts[c] = NoCounts
            /\ raised[c] = {}
            /\ outcome[c] = (IF pc[c] = "done" THEN Finished ELSE Pending)

\* a sequence for a URL without a host was abandoned before its first pull
C20_Witness ==
    \E c \in ReadAllCalls :
        /\ call[c].url = UrlNoHost
        /\ pulls[c] = 0
        /\ pc[c] = "done"
        /\ outcome[c] = Finished
        /\ handle[c] = "none"

(***************************************************************************)
(* Properties of the key codec                                             *)
(***************************************************************************)
\* C9: decoding the entry key of (url, k) as readAll does returns k
C9_KeyRoundTrip ==
    codec.stage = "decoded" => codec.decoded = codec.key

\* C10: unpackValue returns a non-empty raw value without its first byte, the
\* rest unchanged, and fails with MalformedValue on an empty raw value
C10_StripsOneByte ==
    codec.stage = "unpacked" =>
        IF codec.raw = <<>>
            THEN codec.result = Error("MalformedValue")
            ELSE codec.result = Value(BufferToString(Tail(codec.raw)))

\* C11: the entry key of (url, appKey) is the origin key, the bytes 0x00 0x01
\* and appKey, for the empty appKey too, and so never the origin-only key
C11_EntryKeyFormat ==
    codec.stage \in {"derived", "decoded"} =>
        /\ codec.entry = WireKey(codec.url, codec.key)
        /\ codec.entry # codec.lower

\* C12: the origin key of a URL is "_<scheme>//<host>", with "https:" for a
\* URL without a scheme, and two URLs of different (scheme, host) never get
\* the same origin key
C12_OriginKeyInjective ==
    codec.stage \in {"derived", "decoded"} =>
        /\ codec.lower = OriginBytes(codec.url)
        /\ codec.lower2 = OriginBytes(codec.url2)
        /\ OriginOf(codec.url) # OriginOf(codec.url2) => codec.lower # codec.lower2

\* origin keys derived for a URL without a scheme and for http://a, which
\* differ by the scheme only
C12_Witness ==
    /\ codec.stage = "derived"
    /\ codec.url = UrlNoScheme
    /\ codec.url2 = UrlHttpA
    /\ codec.lower = OriginBytes(UrlA)
    /\ codec.lower # codec.lower2

====
